---- MODULE Spec2Model ----
(***************************************************************************)
(* Verification model of the Linear webhook connector:                     *)
(*   - release-document sync against the Slite document store              *)
(*     (processStatusReleaseChange, SliteAPI),                             *)
(*   - issue change detection (IssueChangeDetector),                       *)
(*   - the issue webhook router and its three flows (processIssueWebhook). *)
(*   - the POST route, the story-point tables, the cycle retrospective.    *)
(* The specifications share the variables; each keeps the variables of     *)
(* the other parts at rest.                                                *)
(***************************************************************************)
EXTENDS Integers, Sequences, FiniteSets, TLC

VARIABLES
    store,      \* Slite collection: sequence of notes [id, title, body]
    today,      \* current date, in days
    linearTickets, \* issues Linear currently returns for the story label
    sync,       \* the running processStatusReleaseChange call, per slot
    payload,    \* the issue webhook payload being processed
    detection,  \* the result of detectChanges for the payload
    gw,         \* what the Linear gateway answered during detection
    config,     \* which Slack webhook URLs the environment configures
    handler,    \* processIssueWebhook: its position and its result
    flow,       \* the promise of each of the three flows
    posts,      \* POST requests issued to each Slack webhook
    http,       \* the POST route: the request, its position and its response
    retro,      \* processCycleWebhook: the event, its position and its result
    points,     \* generateStoryPointsTables: the ticket list and the tables
    rendering,  \* generateRetrospectiveContent: its input and two of its outputs
    events      \* the issue webhooks already answered, oldest first

releaseVars == <<store, today, linearTickets, sync>>
detectVars == <<payload, detection, gw>>
issueVars == <<config, handler, flow, posts>>
edgeVars == <<http, retro, points, rendering, events>>
vars == <<store, today, linearTickets, sync, payload, detection, gw,
          config, handler, flow, posts, http, retro, points, rendering, events>>

-----------------------------------------------------------------------------
(* Bounds of the model *)
MaxDay == 1
MaxDocs == 1

(* Program constants *)
ReleaseDelayDays == 7

(* JS undefined / null in a string-typed or number-typed position *)
Undefined == "undefined"
NoDate == -1
NoDoc == [id |-> 0, title |-> Undefined, release_status |-> Undefined, release_at |-> NoDate]

LabelNames == {"Alpha", "Beta"}

\* String.prototype.toLowerCase on the titles and label names of the model
ToLowerCase(s) ==
    CASE s = "Alpha" -> "alpha"
      [] s = "ALPHA" -> "alpha"
      [] s = "Beta" -> "beta"
      [] s = "Fireman Validation" -> "fireman validation"
      [] s = "Done" -> "done"
      [] s = "DONE" -> "done"
      [] s = "Todo" -> "todo"
      [] s = "QA Testing" -> "qa testing"
      [] OTHER -> s

-----------------------------------------------------------------------------
(* Tickets as fetched from Linear and mapped to the ticket list *)
Ticket(id, state, estimate, assignee) ==
    [id |-> id, state |-> state, estimate |-> estimate, assignee |-> assignee]

TicketLists ==
    { <<Ticket(1, "Done", 5, "Alice")>>,
      <<Ticket(1, "Done", 5, "Alice"), Ticket(2, "In Progress", 3, "Alice")>> }

RECURSIVE SumEstimates(_)
SumEstimates(ts) ==
    IF ts = <<>> THEN 0
    ELSE (IF Head(ts).estimate = NoDate THEN 0 ELSE Head(ts).estimate)
         + SumEstimates(Tail(ts))

-----------------------------------------------------------------------------
(* Document bodies: a sequence of lines; a line has a key, a text part and  *)
(* a numeric part.                                                          *)
Line(k, s, n) == [k |-> k, s |-> s, n |-> n]

TicketRows(ts) == [i \in 1..Len(ts) |-> Line("ticket", ts[i].state, ts[i].id)]

\* SliteAPI.formatReleaseDocument
formatReleaseDocument(labelName, releaseDate, status, ts, now) ==
    << Line("release_status", status, 0),
       Line("release_at", "", releaseDate),
       Line("heading", labelName, 0),
       Line("total", "", SumEstimates(ts)) >>
    \o TicketRows(ts)
    \o << Line("generated", "", now) >>

\* index of the first line of the content with key k, 0 if none
FirstLine(content, k) ==
    IF \E i \in 1..Len(content) : content[i].k = k
    THEN CHOOSE i \in 1..Len(content) :
            /\ content[i].k = k
            /\ \A j \in 1..(i-1) : content[j].k # k
    ELSE 0

\* SliteAPI.parseDocumentMetadata: first match of each front-matter key
parseDocumentMetadata(content) ==
    LET si == FirstLine(content, "release_status")
        ri == FirstLine(content, "release_at")
    IN [release_status |-> IF si = 0 THEN Undefined ELSE content[si].s,
        release_at |-> IF ri = 0 THEN NoDate ELSE content[ri].n]

BodyTickets(content) ==
    SelectSeq(content, LAMBDA l : l.k = "ticket")

-----------------------------------------------------------------------------
(* processStatusReleaseChange *)
NoOutcome == [success |-> FALSE, action |-> "none", documentId |-> 0, error |-> "none"]
Outcome(success, action, documentId, error) ==
    [success |-> success, action |-> action, documentId |-> documentId, error |-> error]

IdleSync ==
    [pc |-> "idle", labelName |-> Undefined, ticketList |-> <<>>,
     releaseDateString |-> NoDate, match |-> 0, existing |-> NoDoc,
     content |-> <<>>, calls |-> <<>>, outcome |-> NoOutcome,
     docAtStart |-> 0]

Slots == {1}

\* documents.notes.find(doc => doc.title?.toLowerCase() === title.toLowerCase())
FindByTitle(notes, title) ==
    IF \E i \in 1..Len(notes) : ToLowerCase(notes[i].title) = ToLowerCase(title)
    THEN notes[CHOOSE i \in 1..Len(notes) :
            /\ ToLowerCase(notes[i].title) = ToLowerCase(title)
            /\ \A j \in 1..(i-1) : ToLowerCase(notes[j].title) # ToLowerCase(title)].id
    ELSE 0

DocById(id) == store[CHOOSE i \in 1..Len(store) : store[i].id = id]

\* existingDocument.release_status || 'not_released'
ExistingStatus_OldField(doc) == "not_released"
ExistingStatus(doc) ==
    IF doc.release_status = Undefined THEN "not_released" ELSE doc.release_status

\* existingDocument.release_at || releaseDateString, kept while not_released
FinalReleaseDate_Reset(doc, releaseDateString) == releaseDateString
FinalReleaseDate(doc, releaseDateString) ==
    IF doc.release_at = NoDate THEN releaseDateString ELSE doc.release_at

\* the create branch: format the new content and issue createDocument
IssueCreate(s) ==
    LET content == formatReleaseDocument(s.labelName, s.releaseDateString,
                                         "not_released", s.ticketList, today)
    IN [s EXCEPT !.pc = "creating", !.content = content,
                 !.calls = Append(@, [op |-> "create", id |-> 0,
                                      title |-> s.labelName, body |-> content])]

\* the branch taken once getDocumentByTitle returned existing
AfterLookup(s, existing) ==
    IF existing = NoDoc THEN IssueCreate([s EXCEPT !.existing = NoDoc])
    ELSE IF ExistingStatus(existing) # "not_released"
    THEN [s EXCEPT !.pc = "done", !.existing = existing,
                   !.outcome = Outcome(TRUE, "skipped", existing.id, "none")]
    ELSE LET content == formatReleaseDocument(
                            s.labelName,
                            FinalReleaseDate(existing, s.releaseDateString),
                            "not_released", s.ticketList, today)
         IN [s EXCEPT !.pc = "updating", !.existing = existing,
                      !.content = content,
                      !.calls = Append(@, [op |-> "update", id |-> existing.id,
                                           title |-> existing.title,
                                           body |-> content])]

\* a qualifying transition arrives: processStatusReleaseChange is called
StartSync(p) ==
    /\ sync[p].pc \in {"idle", "done"}
    /\ \E labelName \in LabelNames :
         sync' = [sync EXCEPT ![p] =
                    [IdleSync EXCEPT !.pc = "fetchTickets",
                                     !.labelName = labelName,
                                     !.docAtStart = FindByTitle(store, labelName)]]
    /\ UNCHANGED <<store, today, linearTickets, detectVars, issueVars, edgeVars>>

\* await linearApi.getIssuesByLabel(labelId), then the release date and the
\* list request of getDocumentByTitle
TicketsFetched(p) ==
    /\ sync[p].pc = "fetchTickets"
    /\ \E res \in {"ok", "empty", "throw"} :
         sync' = [sync EXCEPT ![p] =
            IF res = "throw"
            THEN [@ EXCEPT !.pc = "done",
                           !.outcome = Outcome(FALSE, "none", 0, "exception")]
            ELSE [@ EXCEPT !.pc = "listing",
                           !.ticketList = IF res = "ok" THEN linearTickets ELSE <<>>,
                           !.releaseDateString = today + ReleaseDelayDays]]
    /\ UNCHANGED <<store, today, linearTickets, detectVars, issueVars, edgeVars>>

\* getDocumentsFromCollection resolves (an error yields an empty page)
Listed(p) ==
    /\ sync[p].pc = "listing"
    /\ \E res \in {"ok", "error"} :
         LET notes == IF res = "ok" THEN store ELSE <<>>
             m == FindByTitle(notes, sync[p].labelName)
         IN sync' = [sync EXCEPT ![p] =
                IF m = 0 THEN AfterLookup(@, NoDoc)
                ELSE [@ EXCEPT !.pc = "fetchingDoc", !.match = m]]
    /\ UNCHANGED <<store, today, linearTickets, detectVars, issueVars, edgeVars>>

\* apiRequest(`/notes/${document.id}`) resolves (an error yields null)
DocFetched(p) ==
    /\ sync[p].pc = "fetchingDoc"
    /\ \E res \in {"ok", "error"} :
         LET doc == DocById(sync[p].match)
             meta == parseDocumentMetadata(doc.body)
             existing == IF res = "ok"
                         THEN [id |-> doc.id, title |-> doc.title,
                               release_status |-> meta.release_status,
                               release_at |-> meta.release_at]
                         ELSE NoDoc
         IN sync' = [sync EXCEPT ![p] = AfterLookup(@, existing)]
    /\ UNCHANGED <<store, today, linearTickets, detectVars, issueVars, edgeVars>>

\* createDocument / updateDocument returned null: the run ends with a failure
\* outcome, the call is not issued again
WriteFailed_Retry(s, msg) == [s EXCEPT !.calls = Append(@, @[Len(@)])]
WriteFailed(s, msg) ==
    [s EXCEPT !.pc = "done", !.outcome = Outcome(FALSE, "none", 0, msg)]

\* documents the collection holds at most in the model: MaxDocs, and one more
\* for each further request that runs at the same time
StoreLimit == MaxDocs + Cardinality(DOMAIN sync) - 1

\* SliteAPI.createDocument resolves
Created(p) ==
    /\ sync[p].pc = "creating"
    /\ \E res \in {"ok", "error"} :
         IF res = "ok" /\ Len(store) < StoreLimit
         THEN LET id == Len(store) + 1
              IN /\ store' = Append(store, [id |-> id, title |-> sync[p].labelName,
                                            body |-> sync[p].content])
                 /\ sync' = [sync EXCEPT ![p].pc = "done",
                                ![p].outcome = Outcome(TRUE, "created", id, "none")]
         ELSE /\ store' = store
              /\ sync' = [sync EXCEPT ![p] =
                             WriteFailed(@, "Failed to create document in Slite")]
    /\ UNCHANGED <<today, linearTickets, detectVars, issueVars, edgeVars>>

\* SliteAPI.updateDocument resolves
Updated(p) ==
    /\ sync[p].pc = "updating"
    /\ \E res \in {"ok", "error"} :
         IF res = "ok"
         THEN LET id == sync[p].existing.id
              IN /\ store' = [i \in 1..Len(store) |->
                                IF store[i].id = id
                                THEN [store[i] EXCEPT !.body = sync[p].content]
                                ELSE store[i]]
                 /\ sync' = [sync EXCEPT ![p].pc = "done",
                                ![p].outcome = Outcome(TRUE, "updated", id, "none")]
         ELSE /\ store' = store
              /\ sync' = [sync EXCEPT ![p] =
                             WriteFailed(@, "Failed to update document in Slite")]
    /\ UNCHANGED <<today, linearTickets, detectVars, issueVars, edgeVars>>

-----------------------------------------------------------------------------
(* Environment of the release sync *)
ManualStatuses == {"released", "not_released"}

\* a person edits the release_status line of a document in Slite
ManualEdit ==
    /\ \E i \in 1..Len(store), st \in ManualStatuses :
         LET si == FirstLine(store[i].body, "release_status")
         IN /\ si # 0
            /\ store[i].body[si].s # st
            /\ store' = [store EXCEPT ![i].body[si].s = st]
    /\ UNCHANGED <<today, linearTickets, sync, detectVars, issueVars, edgeVars>>

\* a day passes
Tick ==
    /\ today < MaxDay
    /\ today' = today + 1
    /\ UNCHANGED <<store, linearTickets, sync, detectVars, issueVars, edgeVars>>

\* the issues carrying the label change in Linear
TicketsChange ==
    /\ \E ts \in TicketLists : ts # linearTickets /\ linearTickets' = ts
    /\ UNCHANGED <<store, today, sync, detectVars, issueVars, edgeVars>>

-----------------------------------------------------------------------------
(* Issue webhook payloads (LinearWebhookPayload)                            *)
NoNum == -1           \* an absent number (priority, estimate)
Null == "null"        \* JSON null in an id position
NonString == "<number>"  \* a JSON value that is not a string, in a name position

\* the sentinel label as spelled in change-detector.ts and in cycle-status-flow.ts
DetectorSentinel == "mis-encoded FLAGGED"
FlowSentinel == "FLAGGED"
STORY_LABEL_PARENT_ID == "037a6e45"

\* workflow states known to Linear
StateName(id) ==
    CASE id = "s1" -> "Todo"
      [] id = "s2" -> "Fireman Validation"
      [] id = "s3" -> "Done"
      [] id = "s4" -> "QA Testing"
      [] id = "s5" -> "DONE"
      [] OTHER -> "Unknown"
StateRec(id) == [id |-> id, name |-> StateName(id), type |-> "started"]
NoState == [id |-> Undefined, name |-> Undefined, type |-> Undefined]

Ref(id, name) == [id |-> id, name |-> name]
NoRef == [id |-> Undefined, name |-> Undefined]
Label(id, name, parentId) == [id |-> id, name |-> name, parentId |-> parentId]
StoryLabel == Label("l1", "Alpha", STORY_LABEL_PARENT_ID)
FlaggedLabel == Label("l2", FlowSentinel, Undefined)
MisencodedLabel == Label("l3", DetectorSentinel, Undefined)

DataFields == {"state", "priority", "title", "assignee", "cycle", "project",
               "description", "estimate", "labels", "team"}
PriorKeys == {"stateId", "priority", "assigneeId", "cycleId", "projectId",
              "title", "description", "estimate"}

\* the snapshot the payloads of the model vary
BaseData ==
    [state |-> StateRec("s2"), priority |-> 1, title |-> "T1",
     assignee |-> Ref("u1", "Alice"), cycle |-> Ref("c1", "Sprint 1"),
     project |-> Ref("p1", "Project 1"), description |-> "D1", estimate |-> 3,
     labels |-> <<StoryLabel>>, team |-> "Engineering - PRODUCT"]

\* the other values each field of the snapshot takes
DataAlts ==
    [state |-> <<NoState, StateRec("s1"),
                 [StateRec("s2") EXCEPT !.name = "fireman validation"],
                 [StateRec("s2") EXCEPT !.name = NonString],
                 StateRec("s3"), StateRec("s4"), StateRec("s5")>>,
     priority |-> <<NoNum, 2>>,
     title |-> <<Undefined>>,
     assignee |-> <<NoRef>>,
     cycle |-> <<NoRef>>,
     project |-> <<NoRef>>,
     description |-> <<Undefined>>,
     estimate |-> <<NoNum>>,
     labels |-> << <<>>, <<StoryLabel, FlaggedLabel>>, <<MisencodedLabel>> >>,
     team |-> <<"Other team">>]

\* the values each key of updatedFrom takes when it is present
PriorAlts ==
    [stateId |-> <<"s1", "s2", "s3">>,
     priority |-> <<0, 1, 2>>,
     assigneeId |-> <<Null, "u1", "u2">>,
     cycleId |-> <<Null, "c1", "c2">>,
     projectId |-> <<Null, "p1", "p2">>,
     title |-> <<"", "T1", "T2">>,
     description |-> <<"D1", "D2">>,
     estimate |-> <<3, 5>>]

\* updatedFrom with every key absent
EmptyDelta ==
    [present |-> TRUE, stateId |-> Undefined, priority |-> NoNum,
     assigneeId |-> Undefined, cycleId |-> Undefined, projectId |-> Undefined,
     title |-> Undefined, description |-> Undefined, estimate |-> NoNum]
NoDelta == [EmptyDelta EXCEPT !.present = FALSE]

Choices(K, alts) == {ch \in [K -> 1..7] : \A f \in K : ch[f] <= Len(alts[f])}
SmallSubsets(S, n) == {K \in SUBSET S : Cardinality(K) <= n}

DataWith(K, ch) ==
    [f \in DataFields |-> IF f \in K THEN DataAlts[f][ch[f]] ELSE BaseData[f]]
DeltaWith(K, ch) ==
    [f \in PriorKeys \cup {"present"} |->
        IF f \in K THEN PriorAlts[f][ch[f]] ELSE EmptyDelta[f]]

Snapshots(n) ==
    UNION { {DataWith(K, ch) : ch \in Choices(K, DataAlts)} : K \in SmallSubsets(DataFields, n) }
Deltas(n) ==
    UNION { {DeltaWith(K, ch) : ch \in Choices(K, PriorAlts)} : K \in SmallSubsets(PriorKeys, n) }

Actions == {"create", "update", "remove", "restore"}

-----------------------------------------------------------------------------
(* IssueChangeDetector *)
\* an entry of IssueChangeDetection.changes; present = FALSE: the key is not set
Entry(current, previous) ==
    [present |-> TRUE, changed |-> TRUE, current |-> current, previous |-> previous]
NoEntry(none) ==
    [present |-> FALSE, changed |-> FALSE, current |-> none, previous |-> none]
LabelsEntry(added, current) ==
    [present |-> TRUE, changed |-> TRUE, added |-> added, removed |-> <<>>,
     current |-> current, previous |-> <<>>]
NoLabelsEntry ==
    [present |-> FALSE, changed |-> FALSE, added |-> <<>>, removed |-> <<>>,
     current |-> <<>>, previous |-> <<>>]

NoChanges ==
    [status |-> NoEntry(NoState), priority |-> NoEntry(NoNum),
     assignee |-> NoEntry(NoRef), cycle |-> NoEntry(NoRef),
     project |-> NoEntry(NoRef), title |-> NoEntry(Undefined),
     description |-> NoEntry(Undefined), estimate |-> NoEntry(NoNum),
     labels |-> NoLabelsEntry]

NoCycleDetails == [id |-> Undefined, name |-> Undefined, completedAt |-> Undefined]
EmptyResult ==
    [threw |-> FALSE, hasChanges |-> FALSE, changes |-> NoChanges,
     cycleDetails |-> NoCycleDetails, stateCalls |-> 0, cycleCalls |-> 0]

\* outcomes of the Linear gateway calls
StateOutcomes == {"ok", "null", "throw"}
CycleOutcomes == {"active", "completed", "null", "throw"}

\* linearApi.getIssueState(id)
getIssueState(id, res) == IF res = "ok" THEN StateRec(id) ELSE NoState
\* linearApi.getCycleDetails(id)
getCycleDetails(cycle, res) ==
    CASE res = "active" -> [id |-> cycle.id, name |-> cycle.name, completedAt |-> Undefined]
      [] res = "completed" -> [id |-> cycle.id, name |-> cycle.name, completedAt |-> "2024-01-01"]
      [] OTHER -> NoCycleDetails

\* the try/catch around getIssueState and around getCycleDetails
StateErrorEscapes_NoCatch(res) == res = "throw"
StateErrorEscapes(res) == FALSE
CycleErrorEscapes_NoCatch(res) == res = "throw"
CycleErrorEscapes(res) == FALSE

\* x || 0 and x || '' of the recorded current value
OrZero(n) == IF n = NoNum THEN 0 ELSE n
OrEmpty(s) == IF s = Undefined THEN "" ELSE s

\* updatedFrom.xId ? { id, name: 'Unknown' } : undefined
PreviousRef(id) == IF id \in {Undefined, Null, ""} THEN NoRef ELSE Ref(id, "Unknown")

HasName(labels, name) == \E i \in 1..Len(labels) : labels[i].name = name

\* the create branch of detectChanges
CreateChanges(data) ==
    [status |-> Entry(IF data.state = NoState
                      THEN [id |-> "", name |-> "Unknown", type |-> "unstarted"]
                      ELSE data.state, NoState),
     priority |-> Entry(OrZero(data.priority), NoNum),
     assignee |-> Entry(data.assignee, NoRef),
     cycle |-> Entry(data.cycle, NoRef),
     project |-> Entry(data.project, NoRef),
     title |-> Entry(OrEmpty(data.title), Undefined),
     description |-> Entry(data.description, Undefined),
     estimate |-> Entry(data.estimate, NoNum),
     labels |-> LabelsEntry(data.labels, data.labels)]

\* the status comparison reaches the gateway
StateLookupNeeded(data, uf) ==
    /\ uf.stateId # Undefined
    /\ data.state.id # Undefined
    /\ data.state.id # uf.stateId

StatusEntry_Unresolved(data, uf, res) ==
    IF StateLookupNeeded(data, uf)
    THEN Entry(data.state, getIssueState(uf.stateId, res))
    ELSE NoEntry(NoState)
StatusEntry(data, uf, res) ==
    IF StateLookupNeeded(data, uf) /\ getIssueState(uf.stateId, res) # NoState
    THEN Entry(data.state, getIssueState(uf.stateId, res))
    ELSE NoEntry(NoState)

PriorityEntry(data, uf) ==
    IF uf.priority # NoNum /\ data.priority # uf.priority
    THEN Entry(OrZero(data.priority), uf.priority)
    ELSE NoEntry(NoNum)

RefEntry_Inferred(current, priorId) ==
    IF current.id # priorId THEN Entry(current, PreviousRef(priorId)) ELSE NoEntry(NoRef)
RefEntry(current, priorId) ==
    IF priorId # Undefined /\ current.id # priorId
    THEN Entry(current, PreviousRef(priorId))
    ELSE NoEntry(NoRef)

TitleEntry(data, uf) ==
    IF uf.title # Undefined /\ data.title # uf.title
    THEN Entry(OrEmpty(data.title), uf.title)
    ELSE NoEntry(Undefined)

DescriptionEntry(data, uf) ==
    IF uf.description # Undefined /\ data.description # uf.description
    THEN Entry(data.description, uf.description)
    ELSE NoEntry(Undefined)

EstimateEntry(data, uf) ==
    IF uf.estimate # NoNum /\ data.estimate # uf.estimate
    THEN Entry(data.estimate, uf.estimate)
    ELSE NoEntry(NoNum)

\* the heuristic label detection, given whether another field changed
LabelsLikelyChanged(labels, otherChanges) ==
    HasName(labels, DetectorSentinel) \/ (Len(labels) > 0 /\ ~otherChanges)

LabelsHeuristicEntry(labels, otherChanges) ==
    IF LabelsLikelyChanged(labels, otherChanges)
    THEN LabelsEntry(IF HasName(labels, DetectorSentinel)
                     THEN <<Label("", DetectorSentinel, "")>> ELSE <<>>,
                     labels)
    ELSE NoLabelsEntry

TrackedFields == {"status", "priority", "assignee", "cycle", "project", "title",
                  "description", "estimate", "labels"}

AnyChanged(ch, F) == \E f \in F : ch[f].present /\ ch[f].changed

\* hasChanges of the comparison: set to true with every entry that is recorded
HasChanges_FromDelta(fields, labels, uf) ==
    \E k \in PriorKeys : uf[k] # EmptyDelta[k]
HasChanges(fields, labels, uf) ==
    AnyChanged(fields, TrackedFields \ {"labels"}) \/ labels.changed

\* if (currentData.cycle?.id): the cycle details are fetched for every issue
\* in a cycle, whatever changed
FetchesCycle_OnlyWhenChanged(data, fields) ==
    data.cycle.id # Undefined /\ fields.cycle.changed
FetchesCycle(data, fields) == data.cycle.id # Undefined

\* IssueChangeDetector.performSimplifiedComparison
performSimplifiedComparison(data, uf, stateRes, cycleRes) ==
    LET lookup == StateLookupNeeded(data, uf)
        fields == [NoChanges EXCEPT
                     !.status = StatusEntry(data, uf, stateRes),
                     !.priority = PriorityEntry(data, uf),
                     !.assignee = RefEntry(data.assignee, uf.assigneeId),
                     !.cycle = RefEntry(data.cycle, uf.cycleId),
                     !.project = RefEntry(data.project, uf.projectId),
                     !.title = TitleEntry(data, uf),
                     !.description = DescriptionEntry(data, uf),
                     !.estimate = EstimateEntry(data, uf)]
        other == AnyChanged(fields, TrackedFields \ {"labels"})
        labels == LabelsHeuristicEntry(data.labels, other)
        hasCycle == FetchesCycle(data, fields)
    IN IF lookup /\ StateErrorEscapes(stateRes)
       THEN [EmptyResult EXCEPT !.threw = TRUE, !.stateCalls = 1]
       ELSE [threw |-> hasCycle /\ CycleErrorEscapes(cycleRes),
             hasChanges |-> HasChanges(fields, labels, uf),
             changes |-> [fields EXCEPT !.labels = labels],
             cycleDetails |-> IF hasCycle THEN getCycleDetails(data.cycle, cycleRes)
                              ELSE NoCycleDetails,
             stateCalls |-> IF lookup THEN 1 ELSE 0,
             cycleCalls |-> IF hasCycle THEN 1 ELSE 0]

\* if (action === 'update' && updatedFrom)
ComparesUpdate_AnyUpdate(p) == p.action = "update"
ComparesUpdate(p) == p.action = "update" /\ p.updatedFrom.present

\* IssueChangeDetector.detectChanges
detectChanges(p, stateRes, cycleRes) ==
    IF p.action = "create"
    THEN LET hasCycle == p.data.cycle.id # Undefined
         IN [threw |-> hasCycle /\ CycleErrorEscapes(cycleRes),
             hasChanges |-> TRUE,
             changes |-> CreateChanges(p.data),
             cycleDetails |-> IF hasCycle THEN getCycleDetails(p.data.cycle, cycleRes)
                              ELSE NoCycleDetails,
             stateCalls |-> 0,
             cycleCalls |-> IF hasCycle THEN 1 ELSE 0]
    ELSE IF ComparesUpdate(p)
    THEN performSimplifiedComparison(p.data, p.updatedFrom, stateRes, cycleRes)
    ELSE EmptyResult

-----------------------------------------------------------------------------
(* Change detection on one payload *)
MaxVaried == 1      \* snapshot fields that differ from the base snapshot
MaxPriorKeys == 2   \* keys present in updatedFrom

NoPayload == [action |-> "none", data |-> BaseData, updatedFrom |-> NoDelta]
Pending == [EmptyResult EXCEPT !.stateCalls = -1]

DetectPayloads ==
    {[action |-> "update", data |-> d, updatedFrom |-> uf] :
        d \in Snapshots(MaxVaried), uf \in Deltas(MaxPriorKeys) \cup {NoDelta}}
    \cup
    {[action |-> a, data |-> d, updatedFrom |-> uf] :
        a \in Actions \ {"update"}, d \in Snapshots(MaxVaried),
        uf \in {NoDelta, EmptyDelta}}

\* the gateway outcomes that the calls made for payload p can have
StateOutcomesFor(p) ==
    IF p.action = "update" /\ p.updatedFrom.present /\ StateLookupNeeded(p.data, p.updatedFrom)
    THEN StateOutcomes ELSE {"ok"}
CycleOutcomesFor(p) ==
    IF p.data.cycle.id # Undefined
       /\ (p.action = "create" \/ (p.action = "update" /\ p.updatedFrom.present))
    THEN CycleOutcomes ELSE {"active"}

DetectCreate ==
    /\ detection = Pending
    /\ payload.action = "create"
    /\ \E cycleRes \in CycleOutcomesFor(payload) :
         /\ detection' = detectChanges(payload, "ok", cycleRes)
         /\ gw' = [state |-> "ok", cycle |-> cycleRes]
    /\ UNCHANGED <<payload, releaseVars, issueVars, edgeVars>>

DetectUpdate ==
    /\ detection = Pending
    /\ payload.action = "update"
    /\ \E stateRes \in StateOutcomesFor(payload), cycleRes \in CycleOutcomesFor(payload) :
         /\ detection' = detectChanges(payload, stateRes, cycleRes)
         /\ gw' = [state |-> stateRes, cycle |-> cycleRes]
    /\ UNCHANGED <<payload, releaseVars, issueVars, edgeVars>>

DetectOther ==
    /\ detection = Pending
    /\ payload.action \notin {"create", "update"}
    /\ detection' = detectChanges(payload, "ok", "active")
    /\ gw' = [state |-> "ok", cycle |-> "active"]
    /\ UNCHANGED <<payload, releaseVars, issueVars, edgeVars>>

\* no request at the POST route, no cycle webhook being processed
NoSignature == [prefix |-> FALSE, secret |-> "", body |-> ""]
NoRequest ==
    [pc |-> "none", secret |-> "", signature |-> NoSignature, body |-> "",
     type |-> "", outcome |-> "", parsed |-> FALSE, processor |-> "none",
     status |-> 0]
NoRetroResult == [success |-> FALSE, action |-> "none", error |-> "none", cycleId |-> ""]
IdleRetro ==
    [pc |-> "idle", action |-> "none", completedAt |-> Undefined,
     cycleIssues |-> <<>>, docExists |-> FALSE,
     issues |-> <<>>, next |-> 0, issueFetches |-> 0,
     existing |-> FALSE, writes |-> <<>>, result |-> NoRetroResult]
NoPerson == [present |-> FALSE, total |-> 0, hasRow |-> FALSE, donePct |-> 0]
NoPoints ==
    [pc |-> "none", tickets |-> <<>>, totalStoryPoints |-> 0, grandTotal |-> 0,
     doneTotal |-> 0, people |-> [a \in {"Alice", "Unassigned"} |-> NoPerson]]
NoRendering ==
    [pc |-> "none", completedAt |-> Undefined, issues |-> <<>>,
     first |-> <<>>, second |-> <<>>]
LateAtRest == rendering = NoRendering /\ events = <<>>
EdgeAtRest == http = NoRequest /\ retro = IdleRetro /\ points = NoPoints /\ LateAtRest

ReleaseAtRest ==
    /\ store = <<>>
    /\ today = 0
    /\ linearTickets = <<>>
    /\ sync = [p \in Slots |-> IdleSync]

NoGateway == [state |-> "none", cycle |-> "none"]
NoPosts ==
    [fireman |-> 0, cycle |-> 0, reason |-> "",
     answer |-> [fireman |-> "none", cycle |-> "none"]]
FlowNames == {"fireman", "cycle", "release"}
IssueAtRest ==
    /\ config = [fireman |-> TRUE, cycle |-> TRUE]
    /\ handler = [pc |-> "received", success |-> FALSE]
    /\ flow = [f \in FlowNames |-> "notStarted"]
    /\ posts = NoPosts

InitDetect ==
    /\ payload \in DetectPayloads
    /\ detection = Pending
    /\ gw = NoGateway
    /\ ReleaseAtRest
    /\ IssueAtRest
    /\ EdgeAtRest

NextDetect == DetectCreate \/ DetectUpdate \/ DetectOther

SpecDetect == InitDetect /\ [][NextDetect]_vars

-----------------------------------------------------------------------------
-----------------------------------------------------------------------------
(* processIssueWebhook and its three flows *)

\* data.state?.name?.toLowerCase(): undefined stays undefined; a value that is
\* not a string has no toLowerCase and the call throws
LowerThrows(name) == name = NonString
LowerName(name) == IF name = Undefined THEN Undefined ELSE ToLowerCase(name)

LabelNamesOf(labels) == {labels[i].name : i \in 1..Len(labels)}
HasStoryLabel(labels) ==
    \E i \in 1..Len(labels) : labels[i].parentId = STORY_LABEL_PARENT_ID
StoryLabelOf(labels) ==
    labels[CHOOSE i \in 1..Len(labels) :
              /\ labels[i].parentId = STORY_LABEL_PARENT_ID
              /\ \A j \in 1..(i-1) : labels[j].parentId # STORY_LABEL_PARENT_ID]

\* the switch of processIssueWebhook: does this action run the flows
RunsFlows_IgnoringHasChanges(action, hasChanges) == action \in {"create", "update"}
RunsFlows(action, hasChanges) ==
    action = "create" \/ (action = "update" /\ hasChanges)

\* processFiremanValidationFlow up to its first await:
\* "rejected", "fulfilled" (returned without a request) or "awaiting" (POST issued)
FiremanChanged_StatusOnly(d) == d.changes.status.changed
FiremanChanged(d) ==
    d.changes.status.changed \/ d.changes.priority.changed \/ d.changes.title.changed
FiremanCriteria_NoTitle(p, d) ==
    /\ d.changes.status.changed \/ d.changes.priority.changed
    /\ LowerName(p.data.state.name) = "fireman validation"
    /\ p.data.priority = 1
FiremanCriteria(p, d) ==
    /\ FiremanChanged(d)
    /\ LowerName(p.data.state.name) = "fireman validation"
    /\ p.data.priority = 1
FiremanFlow(p, d, cfg) ==
    IF ~FiremanChanged(d) THEN "fulfilled"
    ELSE IF LowerThrows(p.data.state.name) THEN "rejected"
    ELSE IF FiremanCriteria(p, d) /\ cfg.fireman THEN "awaiting"
    ELSE "fulfilled"

\* the trigger of processCycleStatusFlow: its change reason, "" if none
CycleReason(p, d) ==
    LET cur == LowerName(p.data.state.name)
        prev == LowerName(d.changes.status.previous.name)
        labelsChanged == d.changes.labels.changed
        statusChanged == d.changes.status.changed
    IN IF FlowSentinel \in LabelNamesOf(p.data.labels) /\ labelsChanged
       THEN FlowSentinel
       ELSE IF statusChanged /\ cur = "qa testing" /\ prev # "qa testing"
       THEN "QA Testing"
       ELSE IF statusChanged /\ cur = "done" /\ prev # "done"
       THEN "Done"
       ELSE ""

CycleFlow_IgnoringCompleted(p, d, cfg) ==
    IF p.data.team # "Engineering - PRODUCT" THEN "fulfilled"
    ELSE IF ~d.changes.labels.changed /\ ~d.changes.status.changed THEN "fulfilled"
    ELSE IF LowerThrows(p.data.state.name) THEN "rejected"
    ELSE IF CycleReason(p, d) = "" THEN "fulfilled"
    ELSE IF p.data.cycle.id = Undefined THEN "fulfilled"
    ELSE IF d.cycleDetails = NoCycleDetails THEN "fulfilled"
    ELSE IF cfg.cycle THEN "awaiting"
    ELSE "fulfilled"

\* processCycleStatusFlow up to its first await
CycleFlow(p, d, cfg) ==
    IF p.data.team # "Engineering - PRODUCT" THEN "fulfilled"
    ELSE IF ~d.changes.labels.changed /\ ~d.changes.status.changed THEN "fulfilled"
    ELSE IF LowerThrows(p.data.state.name) THEN "rejected"
    ELSE IF CycleReason(p, d) = "" THEN "fulfilled"
    ELSE IF p.data.cycle.id = Undefined THEN "fulfilled"
    ELSE IF d.cycleDetails = NoCycleDetails THEN "fulfilled"
    ELSE IF d.cycleDetails.completedAt # Undefined THEN "fulfilled"
    ELSE IF cfg.cycle THEN "awaiting"
    ELSE "fulfilled"

ReleaseTriggers_NoPrevious(p, d) ==
    /\ d.changes.status.changed
    /\ HasStoryLabel(p.data.labels)
    /\ d.changes.status.current # NoState
\* processReleaseFlow up to its first await: does it call processStatusReleaseChange
ReleaseTriggers(p, d) ==
    /\ d.changes.status.changed
    /\ HasStoryLabel(p.data.labels)
    /\ d.changes.status.current # NoState
    /\ d.changes.status.previous # NoState
ReleaseFlow(p, d) == IF ReleaseTriggers(p, d) THEN "awaiting" ELSE "fulfilled"

\* after detectChanges: the switch on the action; Promise.all starts the three
\* flows, each running to its first await
Route ==
    /\ handler.pc = "received"
    /\ detection # Pending
    /\ IF detection.threw
       THEN /\ handler' = [pc |-> "returned", success |-> FALSE]
            /\ UNCHANGED <<flow, posts, sync>>
       ELSE IF RunsFlows(payload.action, detection.hasChanges)
       THEN LET fm == FiremanFlow(payload, detection, config)
                cy == CycleFlow(payload, detection, config)
                rl == ReleaseFlow(payload, detection)
            IN /\ flow' = [fireman |-> fm, cycle |-> cy, release |-> rl]
               /\ posts' = [fireman |-> posts.fireman + (IF fm = "awaiting" THEN 1 ELSE 0),
                            cycle |-> posts.cycle + (IF cy = "awaiting" THEN 1 ELSE 0),
                            reason |-> IF cy = "awaiting"
                                       THEN CycleReason(payload, detection) ELSE "",
                            answer |-> posts.answer]
               /\ sync' = IF rl = "awaiting"
                          THEN [sync EXCEPT ![1] =
                                  [IdleSync EXCEPT
                                     !.pc = "fetchTickets",
                                     !.labelName = StoryLabelOf(payload.data.labels).name,
                                     !.docAtStart = FindByTitle(store,
                                         StoryLabelOf(payload.data.labels).name)]]
                          ELSE sync
               /\ handler' = [handler EXCEPT !.pc = "joining"]
       ELSE /\ handler' = [pc |-> "returned", success |-> TRUE]
            /\ UNCHANGED <<flow, posts, sync>>
    /\ UNCHANGED <<store, today, linearTickets, detectVars, config, edgeVars>>

\* the send function after its fetch: response.ok, the else branch and the
\* catch all log and return
SinkAnswers == {"ok", "non2xx", "networkError"}
AfterAnswer_Propagates(res) == IF res = "ok" THEN "fulfilled" ELSE "rejected"
AfterAnswer(res) == "fulfilled"

\* the Slack webhook answers the POST of a flow (2xx, non-2xx or a network
\* error): the flow logs and returns
SlackAnswers(f) ==
    /\ f \in {"fireman", "cycle"}
    /\ flow[f] = "awaiting"
    /\ \E res \in SinkAnswers :
         /\ flow' = [flow EXCEPT ![f] = AfterAnswer(res)]
         /\ posts' = [posts EXCEPT !.answer[f] = res]
    /\ UNCHANGED <<releaseVars, detectVars, config, handler, edgeVars>>

\* processStatusReleaseChange returned to processReleaseFlow
ReleaseReturns ==
    /\ flow["release"] = "awaiting"
    /\ sync[1].pc = "done"
    /\ flow' = [flow EXCEPT !["release"] = "fulfilled"]
    /\ UNCHANGED <<releaseVars, detectVars, config, handler, posts, edgeVars>>

\* Promise.all settles: rejected as soon as one flow is rejected, fulfilled
\* once all three are; processIssueWebhook returns
Join ==
    /\ handler.pc = "joining"
    /\ \/ /\ \E f \in FlowNames : flow[f] = "rejected"
          /\ handler' = [pc |-> "returned", success |-> FALSE]
       \/ /\ \A f \in FlowNames : flow[f] = "fulfilled"
          /\ handler' = [pc |-> "returned", success |-> TRUE]
    /\ UNCHANGED <<releaseVars, detectVars, config, flow, posts, edgeVars>>

\* updatedFrom of the issue events: the keys behind the changes the flows read
IssueDeltaKeys == {"stateId", "priority", "title"}
IssuePriorAlts ==
    [stateId |-> <<"s1", "s3">>, priority |-> <<1, 2>>, title |-> <<"T2">>]
IssueDeltas(n) ==
    UNION { { [f \in PriorKeys \cup {"present"} |->
                 IF f \in K THEN IssuePriorAlts[f][ch[f]] ELSE EmptyDelta[f]] :
              ch \in Choices(K, IssuePriorAlts) } :
            K \in SmallSubsets(IssueDeltaKeys, n) }

\* the snapshots of the issue events: the fields the flows read vary, from the
\* base snapshot and from the base snapshot carrying the flagged label
IssueDataFields == {"state", "priority", "labels", "team", "cycle"}
FlaggedData == [BaseData EXCEPT !.labels = <<StoryLabel, FlaggedLabel>>]
IssueSnapshots(n) ==
    UNION { { [DataWith(K, ch) EXCEPT !.labels =
                 IF "labels" \in K THEN @ ELSE b.labels] :
              ch \in Choices(K, DataAlts) } :
            K \in SmallSubsets(IssueDataFields, n), b \in {BaseData, FlaggedData} }

IssuePayloads ==
    {[action |-> "update", data |-> d, updatedFrom |-> uf] :
        d \in IssueSnapshots(MaxVaried), uf \in IssueDeltas(MaxPriorKeys) \cup {NoDelta}}
    \cup
    {[action |-> a, data |-> d, updatedFrom |-> NoDelta] :
        a \in Actions \ {"update"}, d \in IssueSnapshots(MaxVaried)}

\* the Slite collection when the webhook arrives: empty, or holding the
\* document of the story label as an earlier sync wrote it, possibly marked
\* released by hand since
IssueStores ==
    {<<>>} \cup
    { <<[id |-> 1, title |-> StoryLabel.name,
         body |-> formatReleaseDocument(StoryLabel.name, ReleaseDelayDays, st,
                                        <<>>, 0)]>> : st \in ManualStatuses }

InitIssue ==
    /\ payload \in IssuePayloads
    /\ detection = Pending
    /\ gw = NoGateway
    /\ store \in IssueStores
    /\ today = 0
    /\ linearTickets = <<Ticket(1, "Done", 5, "Alice")>>
    /\ sync = [p \in Slots |-> IdleSync]
    /\ config \in [fireman : BOOLEAN, cycle : BOOLEAN]
    /\ handler = [pc |-> "received", success |-> FALSE]
    /\ flow = [f \in FlowNames |-> "notStarted"]
    /\ posts = NoPosts
    /\ EdgeAtRest

NextIssue ==
    \/ DetectCreate
    \/ DetectUpdate
    \/ DetectOther
    \/ Route
    \/ \E f \in FlowNames : SlackAnswers(f)
    \/ TicketsFetched(1)
    \/ Listed(1)
    \/ DocFetched(1)
    \/ Created(1)
    \/ Updated(1)
    \/ ReleaseReturns
    \/ Join

SpecIssue == InitIssue /\ [][NextIssue]_vars

-----------------------------------------------------------------------------
(* The POST route of /api/linear-webhook/[type] *)

\* request bodies: text that is not JSON, JSON that is no event object, and an
\* event object named by its type field
NotJson == "<not json>"
EventTypes == {"Issue", "Comment", "Project", "Cycle", "Other"}
Bodies == {NotJson, "null", "{}"} \cup EventTypes
Secrets == {"k1", "k2"}

\* the hex HMAC-SHA256 of a body under a secret
HmacHex(secret, body) == [secret |-> secret, body |-> body]
\* signature.replace('sha256=', '')
StripPrefix(signature) == [secret |-> signature.secret, body |-> signature.body]

\* verifyLinearWebhook(payload, signature, secret)
verifyLinearWebhook_AnySignature(body, signature, secret) ==
    signature # NoSignature /\ secret # ""
verifyLinearWebhook(body, signature, secret) ==
    IF signature = NoSignature \/ secret = "" THEN FALSE
    ELSE HmacHex(secret, body) = StripPrefix(signature)

\* JSON.parse(body) throws
ParseThrows(body) == body = NotJson

\* processLinearWebhook: the processor the switch on payload.type selects
ProcessorOf(body) ==
    CASE body = "Issue" -> "processIssueWebhook"
      [] body = "Comment" -> "processCommentWebhook"
      [] body = "Project" -> "processProjectWebhook"
      [] body = "Cycle" -> "processCycleWebhook"
      [] OTHER -> "none"
\* reading payload.organizationId / payload.data.id of a value that is no event
ProcessThrows(body) == body \in {"null", "{}"}
\* the results a processor can return
ResultsOf(body) ==
    IF body \in {"Issue", "Cycle"} THEN {"success", "failure"} ELSE {"success"}

Respond(status) == [http EXCEPT !.pc = "responded", !.status = status]

\* the signature check, made only when LINEAR_WEBHOOK_SECRET is set
VerifySignature ==
    /\ http.pc = "received"
    /\ http' = IF http.secret # ""
                  /\ ~verifyLinearWebhook(http.body, http.signature, http.secret)
               THEN Respond(401)
               ELSE [http EXCEPT !.pc = "verified"]
    /\ UNCHANGED <<releaseVars, detectVars, issueVars, retro, points, rendering, events>>

\* JSON.parse(body) in its own try/catch
ParseBody ==
    /\ http.pc = "verified"
    /\ http' = IF ParseThrows(http.body) THEN Respond(400)
               ELSE [http EXCEPT !.pc = "parsed", !.parsed = TRUE]
    /\ UNCHANGED <<releaseVars, detectVars, issueVars, retro, points, rendering, events>>

\* processLinearWebhook and the response; the outer catch answers 500
Process ==
    /\ http.pc = "parsed"
    /\ IF ProcessThrows(http.body)
       THEN http' = [Respond(500) EXCEPT !.outcome = "threw"]
       ELSE \E r \in ResultsOf(http.body) :
              http' = [Respond(200) EXCEPT !.outcome = r,
                                            !.processor = ProcessorOf(http.body)]
    /\ UNCHANGED <<releaseVars, detectVars, issueVars, retro, points, rendering, events>>

Requests ==
    {[NoRequest EXCEPT !.pc = "received", !.secret = k, !.signature = sg,
                       !.body = b, !.type = t] :
        k \in Secrets \cup {""}, b \in Bodies, t \in {"issue", "cycle"},
        sg \in {NoSignature} \cup
               [prefix : BOOLEAN, secret : Secrets, body : Bodies]}

InitRoute ==
    /\ http \in {r \in Requests :
                    r.signature = NoSignature
                    \/ r.signature.body \in {r.body, "null"}}
    /\ retro = IdleRetro
    /\ points = NoPoints
    /\ payload = NoPayload
    /\ detection = Pending
    /\ gw = NoGateway
    /\ ReleaseAtRest
    /\ IssueAtRest
    /\ LateAtRest

NextRoute == VerifySignature \/ ParseBody \/ Process

SpecRoute == InitRoute /\ [][NextRoute]_vars

-----------------------------------------------------------------------------
(* Story points of the release document: SliteAPI.generateStoryPointsTables *)
MaxTickets == 2

\* const states = ['Todo', 'In Progress', 'DEV Review', 'QA Testing', 'Done']
BucketStates == {"Todo", "In Progress", "DEV Review", "QA Testing", "Done"}
People == {"Alice", "Unassigned"}

\* ticket.assignee?.name || 'Unassigned'
AssigneeName(t) == IF t.assignee = Undefined THEN "Unassigned" ELSE t.assignee
\* ticket.estimate || 0
StoryPoints(t) == IF t.estimate = NoDate THEN 0 ELSE t.estimate

\* the points of the tickets of ts, added up
RECURSIVE SumPoints(_)
SumPoints(ts) == IF ts = <<>> THEN 0 ELSE StoryPoints(Head(ts)) + SumPoints(Tail(ts))

\* stats[state] of an assignee: only tickets whose state is a bucket are added
BucketPoints(ts, a, st) ==
    SumPoints(SelectSeq(ts, LAMBDA t : AssigneeName(t) = a /\ t.state = st /\ st \in BucketStates))
\* Object.values(stats).reduce(...): the assignee's total is the sum of the buckets
AssigneeTotal(ts, a) ==
    SumPoints(SelectSeq(ts, LAMBDA t : AssigneeName(t) = a /\ t.state \in BucketStates))
\* totals[state] and grandTotal
BucketTotal(ts, st) == SumPoints(SelectSeq(ts, LAMBDA t : t.state = st /\ st \in BucketStates))
GrandTotal(ts) == SumPoints(SelectSeq(ts, LAMBDA t : t.state \in BucketStates))

\* ((num / den) * 100).toFixed(1), in tenths of a percent
ToFixed1(num, den) == (2000 * num + den) \div (2 * den)

generateStoryPointsTables(ts) ==
    [a \in People |->
        IF \E i \in 1..Len(ts) : AssigneeName(ts[i]) = a
        THEN LET total == AssigneeTotal(ts, a)
             IN [present |-> TRUE, total |-> total,
                 hasRow |-> total # 0,
                 donePct |-> IF total = 0 THEN 0
                             ELSE ToFixed1(BucketPoints(ts, a, "Done"), total)]
        ELSE NoPerson]

\* the ticket lists: every list of up to MaxTickets tickets, and the list of
\* the spec's example
PointTickets ==
    {Ticket(0, st, e, a) : st \in {"Done", "In Progress", "Backlog"},
                           e \in {NoDate, 3, 5}, a \in {"Alice", Undefined}}
ExampleTickets ==
    <<Ticket(1, "Done", 5, "Alice"), Ticket(2, "In Progress", 3, "Alice"),
      Ticket(3, "Todo", 8, Undefined)>>
PointInputs ==
    {ExampleTickets} \cup
    UNION { {[i \in 1..n |-> [f[i] EXCEPT !.id = i]] : f \in [1..n -> PointTickets]} :
            n \in 0..MaxTickets }

\* formatReleaseDocument computes the total and calls generateStoryPointsTables
Aggregate ==
    /\ points.pc = "input"
    /\ points' = [points EXCEPT
                    !.pc = "done",
                    !.totalStoryPoints = SumEstimates(points.tickets),
                    !.grandTotal = IF points.tickets = <<>> THEN 0
                                   ELSE GrandTotal(points.tickets),
                    !.doneTotal = IF points.tickets = <<>> THEN 0
                                  ELSE BucketTotal(points.tickets, "Done"),
                    !.people = IF points.tickets = <<>>
                               THEN [a \in People |-> NoPerson]
                               ELSE generateStoryPointsTables(points.tickets)]
    /\ UNCHANGED <<releaseVars, detectVars, issueVars, http, retro, rendering, events>>

InitPoints ==
    /\ points \in {[NoPoints EXCEPT !.pc = "input", !.tickets = ts] : ts \in PointInputs}
    /\ http = NoRequest
    /\ retro = IdleRetro
    /\ payload = NoPayload
    /\ detection = Pending
    /\ gw = NoGateway
    /\ ReleaseAtRest
    /\ IssueAtRest
    /\ LateAtRest

NextPoints == Aggregate

SpecPoints == InitPoints /\ [][NextPoints]_vars

-----------------------------------------------------------------------------
(* processCycleWebhook and generateCycleRetrospective *)
MaxIssues == 2

CycleId == "c1"
CycleActions == {"create", "update", "remove"}

\* the comments Linear holds for an issue
CommentsOf(id) ==
    IF id = 1 THEN <<"LGTM">> ELSE <<"Reopened after QA", "LGTM">>
\* reopenKeywords.some(keyword => comment.body.toLowerCase().includes(keyword))
HasReopenKeyword(body) == body \in {"Reopened after QA", "moved to Todo"}
ReopenedCount(comments) == Len(SelectSeq(comments, HasReopenKeyword))

\* an issue of the cycle as fetchCycleIssues returns it
CycleIssue(id) ==
    [id |-> id, fetch |-> "pending", comments |-> <<>>, reopenedCount |-> 0]

\* if (action === 'update'): the completedAt test is commented out
GeneratesRetrospective(action, completedAt) == action = "update"

RetroResult(success, action, error) ==
    [success |-> success, action |-> action, error |-> error, cycleId |-> CycleId]

\* processCycleWebhook up to its first await
CycleDispatch ==
    /\ retro.pc = "received"
    /\ retro' = IF GeneratesRetrospective(retro.action, retro.completedAt)
                THEN [retro EXCEPT !.pc = "fetchIssues"]
                ELSE [retro EXCEPT !.pc = "returned",
                                   !.result = RetroResult(TRUE, retro.action, "none")]
    /\ UNCHANGED <<releaseVars, detectVars, issueVars, http, points, rendering, events>>

\* after the issues: the comment fetch of the next issue, or the lookup
AfterIssue(r) ==
    IF r.next > Len(r.issues) THEN [r EXCEPT !.pc = "lookup"] ELSE r

\* fetchCycleIssues: linearApi.getIssuesByCycle resolves; an error yields []
IssuesFetched ==
    /\ retro.pc = "fetchIssues"
    /\ \E res \in {"ok", "throw"} :
         retro' = AfterIssue(
            [retro EXCEPT
               !.pc = "analyzing",
               !.issueFetches = @ + 1,
               !.next = 1,
               !.issues = IF res = "ok"
                          THEN [i \in 1..Len(retro.cycleIssues) |->
                                   CycleIssue(retro.cycleIssues[i])]
                          ELSE <<>>])
    /\ UNCHANGED <<releaseVars, detectVars, issueVars, http, points, rendering, events>>

\* the catch of analyzeIssuesAndComments: the issue gets no comments and the
\* loop goes on
CommentFetchFailed_Aborts(r, i) ==
    [r EXCEPT !.pc = "returned", !.issues[i].fetch = "failed",
              !.result = RetroResult(FALSE, "none", "comment fetch failed")]
CommentFetchFailed(r, i) ==
    AfterIssue([r EXCEPT !.issues[i].fetch = "failed",
                         !.issues[i].comments = <<>>,
                         !.issues[i].reopenedCount = 0,
                         !.next = i + 1])

\* analyzeIssuesAndComments: linearApi.getIssueComments(issue.id) resolves
CommentsFetched ==
    /\ retro.pc = "analyzing"
    /\ LET i == retro.next
       IN \E res \in {"ok", "throw"} :
            retro' =
              IF res = "ok"
              THEN AfterIssue(
                     [retro EXCEPT
                        !.issues[i].fetch = "ok",
                        !.issues[i].comments = CommentsOf(retro.issues[i].id),
                        !.issues[i].reopenedCount =
                            ReopenedCount(CommentsOf(retro.issues[i].id)),
                        !.next = i + 1])
              ELSE CommentFetchFailed(retro, i)
    /\ UNCHANGED <<releaseVars, detectVars, issueVars, http, points, rendering, events>>

\* sliteApi.getDocumentByTitleInNode resolves (null when absent or on error),
\* then updateDocument or createDocumentInNode is called
RetroLookedUp ==
    /\ retro.pc = "lookup"
    /\ \E res \in {"ok", "error"} :
         LET found == res = "ok" /\ retro.docExists
         IN retro' = [retro EXCEPT
                        !.pc = "writing",
                        !.existing = found,
                        !.writes = Append(@, [op |-> IF found THEN "update" ELSE "create",
                                              status |-> "pending"])]
    /\ UNCHANGED <<releaseVars, detectVars, issueVars, http, points, rendering, events>>

\* what processCycleWebhook returns once the write returned its document or null
RetroWritten(written) == RetroResult(TRUE, "retrospective-created", "none")

\* updateDocument / createDocumentInNode resolves: the document, or null
RetroWriteDone ==
    /\ retro.pc = "writing"
    /\ \E res \in {"ok", "error"} :
         retro' = [retro EXCEPT
                     !.pc = "returned",
                     !.docExists = @ \/ res = "ok",
                     !.writes[Len(retro.writes)].status =
                         IF res = "ok" THEN "ok" ELSE "failed",
                     !.result = RetroWritten(res = "ok")]
    /\ UNCHANGED <<releaseVars, detectVars, issueVars, http, points, rendering, events>>

CycleEvents ==
    {[IdleRetro EXCEPT !.pc = "received", !.action = a, !.completedAt = c,
                       !.cycleIssues = [i \in 1..n |-> i], !.docExists = e] :
        a \in CycleActions, c \in {Undefined, "2024-01-01"},
        n \in 0..MaxIssues, e \in BOOLEAN}

InitRetro ==
    /\ retro \in CycleEvents
    /\ http = NoRequest
    /\ points = NoPoints
    /\ payload = NoPayload
    /\ detection = Pending
    /\ gw = NoGateway
    /\ ReleaseAtRest
    /\ IssueAtRest
    /\ LateAtRest

NextRetro ==
    \/ CycleDispatch
    \/ IssuesFetched
    \/ CommentsFetched
    \/ RetroLookedUp
    \/ RetroWriteDone

SpecRetro == InitRetro /\ [][NextRetro]_vars

-----------------------------------------------------------------------------
(* generateRetrospectiveContent and calculateAssigneeStats *)

CycleName == "Sprint 1"
\* new Date().toISOString(): the date part of an instant, and the instants
IsoDate(day) == <<"2024-01-01", "2024-01-02", "2024-01-03", "2024-01-04">>[day + 1]
Instants == [day : 0..MaxDay, time : 0..1]
NotBefore(t, u) == u.day > t.day \/ (u.day = t.day /\ u.time >= t.time)

\* an issue of the cycle after analyzeIssuesAndComments
AnalysedIssue(id, assignee, estimate, state, stateType, fetched) ==
    [id |-> id, assignee |-> assignee, estimate |-> estimate, state |-> state,
     stateType |-> stateType,
     comments |-> IF fetched THEN CommentsOf(id) ELSE <<>>,
     reopenedCount |-> IF fetched THEN ReopenedCount(CommentsOf(id)) ELSE 0]

\* calculateAssigneeStats: totalStoryPoints and statusBreakdown[status]
StatsTotal(issues, a) ==
    SumPoints(SelectSeq(issues, LAMBDA t : AssigneeName(t) = a))
StatsBreakdown(issues, a, status) ==
    SumPoints(SelectSeq(issues, LAMBDA t : AssigneeName(t) = a /\ t.state = status))
\* the Map keeps the assignees in the order of their first issue
FirstIssueOf(issues, a) ==
    CHOOSE i \in 1..Len(issues) :
        /\ AssigneeName(issues[i]) = a
        /\ \A j \in 1..(i-1) : AssigneeName(issues[j]) # a
\* Array.from(assigneeMap.values()).sort((a, b) => b.total - a.total): stable
calculateAssigneeStats(issues) ==
    LET names == {AssigneeName(issues[i]) : i \in 1..Len(issues)}
        Precedes(a, b) ==
            \/ StatsTotal(issues, a) > StatsTotal(issues, b)
            \/ /\ StatsTotal(issues, a) = StatsTotal(issues, b)
               /\ FirstIssueOf(issues, a) < FirstIssueOf(issues, b)
    IN CHOOSE order \in [1..Cardinality(names) -> names] :
          \A i, j \in 1..Cardinality(names) : i < j => Precedes(order[i], order[j])

\* the lines of one issue row, one assignee row, one reopened-issue bullet
IssueRow(t) ==
    << Line("issue", AssigneeName(t), StoryPoints(t)),
       Line("issue_state", t.state, IF t.stateType = "completed" THEN 1 ELSE 0) >>
AssigneeRow(issues, a) ==
    LET total == StatsTotal(issues, a)
        done == StatsBreakdown(issues, a, "Done")
    IN << Line("assignee", a, total),
          Line("assignee_done", a, done),
          Line("assignee_pct", a, IF total > 0 THEN ToFixed1(done, total) ELSE 0) >>
RECURSIVE Flatten(_)
Flatten(rows) == IF rows = <<>> THEN <<>> ELSE Head(rows) \o Flatten(Tail(rows))

generateRetrospectiveContent(completedAt, issues, now) ==
    LET totalStoryPoints == SumPoints(issues)
        completedStoryPoints ==
            SumPoints(SelectSeq(issues, LAMBDA t : t.stateType = "completed"))
        reopenedIssues == SelectSeq(issues, LAMBDA t : t.reopenedCount > 0)
        assigneeStats == calculateAssigneeStats(issues)
    IN << Line("cycle_id", CycleId, 0),
          Line("cycle_name", CycleName, 0),
          Line("completed_at",
               IF completedAt # Undefined THEN completedAt ELSE IsoDate(now.day), 0),
          Line("total_story_points", "", totalStoryPoints),
          Line("completed_story_points", "", completedStoryPoints),
          Line("completion_rate", "",
               IF totalStoryPoints > 0
               THEN ToFixed1(completedStoryPoints, totalStoryPoints) ELSE 0),
          Line("total_issues", "", Len(issues)),
          Line("reopened_issues", "", Len(reopenedIssues)) >>
       \o Flatten([i \in 1..Len(issues) |-> IssueRow(issues[i])])
       \o Flatten([i \in 1..Len(assigneeStats) |-> AssigneeRow(issues, assigneeStats[i])])
       \o [i \in 1..Len(reopenedIssues) |->
              Line("reopened", "", reopenedIssues[i].id)]
       \o << Line("quality_focus",
                  IF totalStoryPoints > 0
                     /\ 100 * completedStoryPoints >= 80 * totalStoryPoints
                  THEN "maintain" ELSE "more testing", 0),
             Line("generated", IsoDate(now.day), now.time),
             Line("footer_cycle_id", CycleId, 0) >>

\* the content without its 'Generated:' line
WithoutGenerated(content) == SelectSeq(content, LAMBDA l : l.k # "generated")

\* the cycle's issues as analysed: every list of up to MaxIssues issues
AnalysedIssues ==
    UNION { { [i \in 1..n |->
                 AnalysedIssue(i, f[i].assignee, f[i].estimate, f[i].state.name,
                               f[i].state.type, f[i].fetched)] :
              f \in [1..n -> [assignee : {"Alice", Undefined}, estimate : {NoDate, 3},
                              state : {[name |-> "Done", type |-> "completed"],
                                       [name |-> "Todo", type |-> "unstarted"]},
                              fetched : BOOLEAN]] } :
            n \in 0..MaxIssues }

\* the retrospective content is generated, at some instant
Generate ==
    /\ rendering.pc = "input"
    /\ \E now \in Instants :
         rendering' = [rendering EXCEPT
                         !.pc = "once",
                         !.first = generateRetrospectiveContent(
                                      rendering.completedAt, rendering.issues, now)]
    /\ UNCHANGED <<releaseVars, detectVars, issueVars, http, retro, points, events>>

\* a later cycle update with the same data generates it again
Regenerate ==
    /\ rendering.pc = "once"
    /\ \E now \in Instants :
         /\ \E l \in 1..Len(rendering.first) :
               /\ rendering.first[l].k = "generated"
               /\ NotBefore([day |-> CHOOSE d \in 0..MaxDay :
                                        IsoDate(d) = rendering.first[l].s,
                             time |-> rendering.first[l].n], now)
         /\ rendering' = [rendering EXCEPT
                            !.pc = "twice",
                            !.second = generateRetrospectiveContent(
                                          rendering.completedAt, rendering.issues, now)]
    /\ UNCHANGED <<releaseVars, detectVars, issueVars, http, retro, points, events>>

InitContent ==
    /\ rendering \in {[NoRendering EXCEPT !.pc = "input", !.completedAt = c,
                                          !.issues = is] :
                         c \in {Undefined, "2023-12-31"}, is \in AnalysedIssues}
    /\ events = <<>>
    /\ http = NoRequest
    /\ retro = IdleRetro
    /\ points = NoPoints
    /\ payload = NoPayload
    /\ detection = Pending
    /\ gw = NoGateway
    /\ ReleaseAtRest
    /\ IssueAtRest

NextContent == Generate \/ Regenerate

SpecContent == InitContent /\ [][NextContent]_vars

-----------------------------------------------------------------------------
(* Successive webhooks of one issue: each request is handled on its own *)
MaxEvents == 2

\* the issue as successive saves leave it
AlertSnapshots ==
    {[BaseData EXCEPT !.labels = <<>>, !.cycle = NoRef, !.state = StateRec(st),
                      !.priority = pr, !.title = t] :
        st \in {"s1", "s2"}, pr \in {1, 2}, t \in {"T1", "T2"}}

\* updatedFrom as Linear sends it: the previous value of each field the save changed
DeltaFrom(prev, cur) ==
    [EmptyDelta EXCEPT
        !.stateId = IF prev.state.id # cur.state.id THEN prev.state.id ELSE Undefined,
        !.priority = IF prev.priority # cur.priority THEN prev.priority ELSE NoNum,
        !.title = IF prev.title # cur.title THEN prev.title ELSE Undefined]
UpdateEvent(prev, cur) ==
    [action |-> "update", data |-> cur, updatedFrom |-> DeltaFrom(prev, cur)]

\* the handler answered; the next save of the same issue arrives as a new
\* request, which starts from nothing but its payload
NextEvent ==
    /\ handler.pc = "returned"
    /\ Len(events) + 1 < MaxEvents
    /\ events' = Append(events, [payload |-> payload, detection |-> detection,
                                 fireman |-> posts.fireman])
    /\ \E cur \in AlertSnapshots : payload' = UpdateEvent(payload.data, cur)
    /\ detection' = Pending
    /\ gw' = NoGateway
    /\ handler' = [pc |-> "received", success |-> FALSE]
    /\ flow' = [f \in FlowNames |-> "notStarted"]
    /\ UNCHANGED <<releaseVars, config, posts, http, retro, points, rendering>>

InitAlerts ==
    /\ payload \in {UpdateEvent(prev, cur) : prev, cur \in AlertSnapshots}
    /\ detection = Pending
    /\ gw = NoGateway
    /\ config \in [fireman : BOOLEAN, cycle : {TRUE}]
    /\ handler = [pc |-> "received", success |-> FALSE]
    /\ flow = [f \in FlowNames |-> "notStarted"]
    /\ posts = NoPosts
    /\ ReleaseAtRest
    /\ EdgeAtRest

NextAlerts ==
    \/ DetectUpdate
    \/ Route
    \/ SlackAnswers("fireman")
    \/ Join
    \/ NextEvent

SpecAlerts == InitAlerts /\ [][NextAlerts]_vars

-----------------------------------------------------------------------------
(* Two webhook requests run processStatusReleaseChange at the same time *)
Racers == {1, 2}

InitRace ==
    /\ store = <<>>
    /\ today = 0
    /\ linearTickets = <<Ticket(1, "Done", 5, "Alice")>>
    /\ sync = [p \in Racers |-> IdleSync]
    /\ payload = NoPayload
    /\ detection = Pending
    /\ gw = NoGateway
    /\ IssueAtRest
    /\ EdgeAtRest

NextRace ==
    \/ \E p \in Racers : StartSync(p)
    \/ \E p \in Racers : TicketsFetched(p)
    \/ \E p \in Racers : Listed(p)
    \/ \E p \in Racers : DocFetched(p)
    \/ \E p \in Racers : Created(p)
    \/ \E p \in Racers : Updated(p)

SpecRace == InitRace /\ [][NextRace]_vars

InitRelease ==
    /\ store = <<>>
    /\ today = 0
    /\ linearTickets \in TicketLists
    /\ sync = [p \in Slots |-> IdleSync]
    /\ payload = NoPayload
    /\ detection = Pending
    /\ gw = NoGateway
    /\ IssueAtRest
    /\ EdgeAtRest

NextRelease ==
    \/ \E p \in Slots : StartSync(p)
    \/ \E p \in Slots : TicketsFetched(p)
    \/ \E p \in Slots : Listed(p)
    \/ \E p \in Slots : DocFetched(p)
    \/ \E p \in Slots : Created(p)
    \/ \E p \in Slots : Updated(p)
    \/ ManualEdit
    \/ Tick
    \/ TicketsChange

SpecRelease == InitRelease /\ [][NextRelease]_vars

-----------------------------------------------------------------------------
(* Release-document claims, checked under SpecRelease *)

Finished(p) == sync[p].pc = "done"
LookedUpLocked(p) ==
    /\ sync[p].existing # NoDoc
    /\ sync[p].existing.release_status \notin {Undefined, "not_released"}

\* C1: a run of processStatusReleaseChange whose lookup returned a document with
\* a parsed release_status other than not_released issues no createDocument or
\* updateDocument call, and its outcome has action 'skipped'.
C1_ManualLock ==
    \A p \in Slots :
        LookedUpLocked(p) =>
            /\ sync[p].calls = <<>>
            /\ sync[p].pc = "done"
            /\ sync[p].outcome.success
            /\ sync[p].outcome.action = "skipped"
            /\ sync[p].outcome.documentId = sync[p].existing.id

\* a finished run that found the document released by hand, the document still
\* holding the status and the body it had
C1_Witness ==
    \E p \in Slots :
        /\ Finished(p) /\ LookedUpLocked(p)
        /\ sync[p].existing.release_status = "released"
        /\ parseDocumentMetadata(DocById(sync[p].existing.id).body).release_status = "released"

UpdateCalls(p) == SelectSeq(sync[p].calls, LAMBDA c : c.op = "update")

\* C2: every updateDocument call of a run that found the document not_released
\* writes a body whose release_at is the release_at the lookup read from the
\* stored document, whose release_status is not_released, and whose ticket rows
\* are those of the run's own fetch.
C2_ReleaseAtPreserved ==
    \A p \in Slots :
        \A i \in 1..Len(UpdateCalls(p)) :
            LET c == UpdateCalls(p)[i]
                meta == parseDocumentMetadata(c.body)
            IN /\ sync[p].existing.release_at # NoDate
                    => meta.release_at = sync[p].existing.release_at
               /\ meta.release_status = "not_released"
               /\ BodyTickets(c.body) = TicketRows(sync[p].ticketList)
               /\ c.id = sync[p].existing.id

\* an applied update on a later day than the creation: the date a new document
\* would get differs from the stored one, and the stored one is kept
C2_Witness ==
    \E p \in Slots :
        /\ Finished(p)
        /\ sync[p].outcome.action = "updated"
        /\ sync[p].existing.release_at # NoDate
        /\ sync[p].releaseDateString # sync[p].existing.release_at
        /\ parseDocumentMetadata(DocById(sync[p].existing.id).body).release_at
              = sync[p].existing.release_at
        /\ BodyTickets(DocById(sync[p].existing.id).body) = TicketRows(sync[p].ticketList)

\* C3: a run that starts with no document titled with the label issues exactly
\* one createDocument (release_status not_released, release_at = date + 7);
\* a run that starts with such a document issues no createDocument, and one
\* updateDocument on that document when it reads the status not_released.
C3_Lifecycle ==
    \A p \in Slots :
        Finished(p) /\ sync[p].outcome.error # "exception" =>
            IF sync[p].docAtStart = 0
            THEN /\ Len(sync[p].calls) = 1
                 /\ sync[p].calls[1].op = "create"
                 /\ parseDocumentMetadata(sync[p].calls[1].body) =
                        [release_status |-> "not_released",
                         release_at |-> sync[p].releaseDateString]
            ELSE /\ \A i \in 1..Len(sync[p].calls) : sync[p].calls[i].op # "create"
                 /\ sync[p].existing # NoDoc
                      /\ ExistingStatus(sync[p].existing) = "not_released" =>
                        /\ Len(sync[p].calls) = 1
                        /\ sync[p].calls[1].op = "update"
                        /\ sync[p].calls[1].id = sync[p].docAtStart

-----------------------------------------------------------------------------
(* Change-detection claims, checked under SpecDetect *)

Detected == detection # Pending
Ch == detection.changes

\* C6: for a create payload detectChanges returns hasChanges = true and all nine
\* tracked fields present with changed = true and no previous value, whatever
\* the snapshot holds and whatever the cycle-detail fetch does.
C6_CreateAllChanged ==
    Detected /\ payload.action = "create" =>
        /\ ~detection.threw
        /\ detection.hasChanges
        /\ \A f \in TrackedFields : Ch[f].present /\ Ch[f].changed
        /\ Ch.status.previous = NoState
        /\ Ch.priority.previous = NoNum
        /\ Ch.assignee.previous = NoRef
        /\ Ch.cycle.previous = NoRef
        /\ Ch.project.previous = NoRef
        /\ Ch.title.previous = Undefined
        /\ Ch.description.previous = Undefined
        /\ Ch.estimate.previous = NoNum
        /\ Ch.labels.previous = <<>> /\ Ch.labels.removed = <<>>

\* a create whose snapshot references a cycle and whose cycle-detail fetch threw
C6_Witness ==
    /\ Detected /\ payload.action = "create"
    /\ payload.data.cycle.id # Undefined
    /\ gw.cycle = "throw"
    /\ detection.cycleDetails = NoCycleDetails
    /\ detection.hasChanges

\* the key of updatedFrom that decides a tracked field
KeyAbsent(f) ==
    LET uf == payload.updatedFrom
    IN CASE f = "status" -> uf.stateId = Undefined
         [] f = "priority" -> uf.priority = NoNum
         [] f = "assignee" -> uf.assigneeId = Undefined
         [] f = "cycle" -> uf.cycleId = Undefined
         [] f = "project" -> uf.projectId = Undefined
         [] f = "title" -> uf.title = Undefined
         [] f = "description" -> uf.description = Undefined
         [] f = "estimate" -> uf.estimate = NoNum
         [] OTHER -> TRUE   \* updatedFrom carries no key for the labels

UpdateDetected == Detected /\ payload.action = "update" /\ payload.updatedFrom.present

\* C7 as stated: on an update no tracked field (labels included) whose key is
\* absent from updatedFrom has an entry with changed = true.
C7_NoInferenceAnyField ==
    UpdateDetected =>
        \A f \in TrackedFields : KeyAbsent(f) => ~(Ch[f].present /\ Ch[f].changed)

\* C7 amended: on an update none of the eight fields other than labels has an
\* entry with changed = true when its key is absent from updatedFrom.
C7_NoInferenceEightFields ==
    UpdateDetected =>
        \A f \in TrackedFields \ {"labels"} :
            KeyAbsent(f) => ~Ch[f].present /\ ~Ch[f].changed

\* an update that changed the priority while the assignee key is absent and the
\* snapshot has an assignee
C7_Witness ==
    /\ UpdateDetected
    /\ Ch.priority.changed
    /\ KeyAbsent("assignee") /\ payload.data.assignee # NoRef
    /\ ~Ch.assignee.present

\* C8: on an update every entry with changed = true that carries a previous
\* value records a current value different from it.
C8_ChangedMeansDifferent ==
    UpdateDetected =>
        /\ Ch.status.changed /\ Ch.status.previous # NoState
              => Ch.status.current # Ch.status.previous
        /\ Ch.priority.changed /\ Ch.priority.previous # NoNum
              => Ch.priority.current # Ch.priority.previous
        /\ Ch.title.changed /\ Ch.title.previous # Undefined
              => Ch.title.current # Ch.title.previous
        /\ \A f \in {"assignee", "cycle", "project"} :
              Ch[f].changed /\ Ch[f].previous # NoRef
                  => Ch[f].current # Ch[f].previous
        /\ Ch.description.changed /\ Ch.description.previous # Undefined
              => Ch.description.current # Ch.description.previous
        /\ Ch.estimate.changed /\ Ch.estimate.previous # NoNum
              => Ch.estimate.current # Ch.estimate.previous

ResolutionFailed ==
    /\ UpdateDetected
    /\ StateLookupNeeded(payload.data, payload.updatedFrom)
    /\ gw.state \in {"null", "throw"}

-----------------------------------------------------------------------------
(* Issue-handler claims, checked under SpecIssue *)

Routed == handler.pc # "received"
Returned == handler.pc = "returned"
Invoked(f) == flow[f] # "notStarted"

\* C4: when processIssueWebhook returns, every flow it invoked has run to
\* completion, also when one of the flows was rejected.
C4_JoinWaitsForAll ==
    Returned => \A f \in FlowNames : flow[f] # "awaiting"

StatusReasons == {"QA Testing", "Done"}
CyclePosted == Routed /\ posts.cycle > 0

\* C11: a cycle notification with reason 'QA Testing' or 'Done' is posted only
\* if status is marked changed, the current status name is that target in any
\* letter case, and the diff records a previous status name that is present
\* and is not that target; so never for an event whose diff has no previous
\* status.
C11_StatusCase ==
    CyclePosted /\ posts.reason \in StatusReasons =>
        LET st == detection.changes.status
        IN /\ st.changed
           /\ LowerName(payload.data.state.name) = ToLowerCase(posts.reason)
           /\ st.previous.name # Undefined
           /\ LowerName(st.previous.name) # ToLowerCase(posts.reason)

\* an event of the target team, in an active cycle, whose current labels hold
\* the flagged label, with the cycle webhook configured
FlaggedEvent ==
    /\ Routed /\ config.cycle
    /\ \/ payload.action = "create"
       \/ payload.action = "update" /\ payload.updatedFrom.present
    /\ payload.data.team = "Engineering - PRODUCT"
    /\ FlowSentinel \in LabelNamesOf(payload.data.labels)
    /\ payload.data.state.name # NonString
    /\ payload.data.cycle.id # Undefined
    /\ detection.cycleDetails # NoCycleDetails
    /\ detection.cycleDetails.completedAt = Undefined

\* C12: for such an event the detector marks labels changed and the cycle flow
\* posts the notification with the flagged reason, whatever the status is and
\* whether or not other fields changed in the same event.
C12_FlaggedCase ==
    FlaggedEvent =>
        /\ detection.changes.labels.changed
        /\ posts.cycle = 1
        /\ posts.reason = FlowSentinel

\* C13: a cycle notification is posted only for an issue of the team
\* 'Engineering - PRODUCT' that references a cycle whose details were fetched
\* and whose completedAt is absent.
C13_CycleGates ==
    CyclePosted =>
        /\ payload.data.team = "Engineering - PRODUCT"
        /\ payload.data.cycle.id # Undefined
        /\ detection.cycleCalls = 1
        /\ gw.cycle = "active"
        /\ detection.cycleDetails # NoCycleDetails
        /\ detection.cycleDetails.completedAt = Undefined

\* the flagged trigger matched for the target team, and the completed cycle
\* (or the failed cycle fetch) suppressed the notification
C13_Witness ==
    /\ Routed /\ config.cycle
    /\ payload.data.team = "Engineering - PRODUCT"
    /\ FlowSentinel \in LabelNamesOf(payload.data.labels)
    /\ detection.changes.labels.changed
    /\ payload.data.cycle.id # Undefined
    /\ gw.cycle \in {"completed", "throw"}
    /\ flow["cycle"] = "fulfilled"
    /\ posts.cycle = 0

\* C14: for one issue event at most one POST goes to the fireman webhook, at
\* most one to the cycle webhook and at most one write (create or update) to
\* Slite, whatever the calls answer; nothing is issued a second time.
C14_AtMostOnce ==
    /\ posts.fireman <= 1
    /\ posts.cycle <= 1
    /\ \A p \in Slots : Len(sync[p].calls) <= 1

\* the event is fully processed: the fireman POST was issued once and the one
\* Slite write failed
C14_Witness ==
    /\ Returned
    /\ \A f \in FlowNames : flow[f] = "fulfilled"
    /\ posts.fireman = 1
    /\ sync[1].pc = "done" /\ ~sync[1].outcome.success
    /\ Len(sync[1].calls) = 1

-----------------------------------------------------------------------------
(* Route claims, checked under SpecRoute *)

Responded == http.pc = "responded"
SignatureValid ==
    /\ http.signature # NoSignature
    /\ http.signature.secret = http.secret
    /\ http.signature.body = http.body

\* C15: with a secret configured an invalid or missing signature yields 401
\* and the body is neither parsed nor processed; without a secret the check is
\* skipped; a body that is not JSON yields 400 and no processor runs; an
\* exception during processing yields 500; otherwise 200. The route always
\* answers with one of these.
C15_HttpOutcome ==
    /\ http.status \in {0, 200, 400, 401, 500}
    /\ http.parsed => http.secret = "" \/ SignatureValid
    /\ Responded =>
        /\ http.status =
              IF http.secret # "" /\ ~SignatureValid THEN 401
              ELSE IF http.body = NotJson THEN 400
              ELSE IF http.body \notin EventTypes THEN 500
              ELSE 200
        /\ http.status = 401 => ~http.parsed /\ http.processor = "none"
        /\ http.status \in {400, 500} => http.processor = "none"
        /\ http.status = 200 => http.parsed /\ http.outcome \in {"success", "failure"}

\* answered 401: the signature was made with another secret over a body that
\* is not JSON, and the body was never parsed
C15_Witness ==
    /\ Responded /\ http.status = 401
    /\ http.secret = "k1" /\ http.signature # NoSignature
    /\ http.signature.secret = "k2"
    /\ http.body = NotJson
    /\ ~http.parsed

-----------------------------------------------------------------------------
(* Release-sync failure, checked under SpecIssue *)

PastLookup(p) == sync[p].pc \in {"creating", "updating", "done"}
\* the document of the label existed when the run started and the lookup of
\* the run returned none: the list request or the note fetch failed
LookupFailed(p) ==
    /\ PastLookup(p)
    /\ sync[p].docAtStart # 0
    /\ sync[p].existing = NoDoc
    /\ sync[p].outcome.error # "exception"
\* Linear holds issues with the label and the run got none: the fetch failed
TicketFetchFailed(p) ==
    /\ sync[p].pc \notin {"idle", "fetchTickets"}
    /\ linearTickets # <<>>
    /\ sync[p].ticketList = <<>>

\* C16: a release sync whose issue fetch or document lookup failed issues no
\* document write and ends with success = false.
C16_SyncFailure ==
    \A p \in Slots :
        LookupFailed(p) \/ TicketFetchFailed(p) =>
            /\ sync[p].calls = <<>>
            /\ sync[p].pc = "done" => ~sync[p].outcome.success

-----------------------------------------------------------------------------
(* Story-points claim, checked under SpecPoints *)

Aggregated == points.pc = "done"

\* C17: the total is the sum of all estimates, an absent one counting 0; each
\* assignee's completion percentage is the assignee's Done points divided by
\* the points of all of the assignee's tickets, whatever their status, and is
\* reported as 0 when that total is 0; the example list gives Alice 8 and
\* 62.5%, grand total 16, Done total 5.
C17_StoryPoints ==
    Aggregated =>
        LET ts == points.tickets
        IN /\ points.totalStoryPoints = SumPoints(SelectSeq(ts, LAMBDA t : TRUE))
           /\ \A a \in People :
                points.people[a].present =>
                    LET all == SumPoints(SelectSeq(ts, LAMBDA t : AssigneeName(t) = a))
                        done == SumPoints(SelectSeq(ts, LAMBDA t : AssigneeName(t) = a
                                                         /\ t.state = "Done"))
                    IN /\ points.people[a].hasRow
                       /\ points.people[a].donePct =
                             IF all = 0 THEN 0 ELSE ToFixed1(done, all)
           /\ ts = ExampleTickets =>
                /\ points.people["Alice"].total = 8
                /\ points.people["Alice"].donePct = 625
                /\ points.grandTotal = 16
                /\ points.doneTotal = 5

-----------------------------------------------------------------------------
(* Retrospective claims, checked under SpecRetro *)

RetroReturned == retro.pc = "returned"

\* C18: the cycle issues are fetched and the retrospective document is written
\* only for a cycle webhook with action 'update' whose data has a completedAt.
C18_RetroTrigger ==
    retro.issueFetches > 0 \/ retro.writes # <<>> =>
        retro.action = "update" /\ retro.completedAt # Undefined

Analysed == retro.pc \in {"lookup", "writing", "returned"} /\ retro.issueFetches > 0

C20_WriteFailure ==
    RetroReturned /\ retro.writes # <<>> /\ retro.writes[Len(retro.writes)].status = "failed" =>
        /\ ~retro.result.success
        /\ retro.result.cycleId = CycleId
        /\ retro.result.action # "retrospective-created"

-----------------------------------------------------------------------------
(* Retrospective content claim, checked under SpecContent *)

Regenerated == rendering.pc = "twice"

\* C21: generating the retrospective content twice from the same cycle data,
\* issues and comments, at whatever instants and also when the cycle has no
\* completedAt, gives two outputs that differ in the 'Generated:' line only.
C21_RetroIdempotent ==
    Regenerated =>
        WithoutGenerated(rendering.first) = WithoutGenerated(rendering.second)

-----------------------------------------------------------------------------
(* Release trigger and sink failure, checked under SpecIssue *)

ReleaseCalled == sync[1].pc # "idle"

\* C22: processReleaseFlow calls processStatusReleaseChange exactly for an
\* event whose diff marks the status changed, whose issue has a label with the
\* Story parent id and whose diff holds a previous and a current status;
\* otherwise no gateway or document-store call is made, and a create event
\* never starts the release sync.
C22_ReleaseTrigger ==
    /\ handler.pc # "received" =>
         (ReleaseCalled <=>
            /\ ~detection.threw
            /\ detection.changes.status.changed
            /\ \E i \in 1..Len(payload.data.labels) :
                  payload.data.labels[i].parentId = STORY_LABEL_PARENT_ID
            /\ detection.changes.status.previous # NoState
            /\ detection.changes.status.current # NoState)
    /\ ~ReleaseCalled => sync[1] = IdleSync /\ store \in IssueStores
    /\ payload.action = "create" => ~ReleaseCalled

\* an update that changed the status of a story issue started the release sync,
\* which wrote the document and returned
C22_Witness ==
    /\ handler.pc = "returned"
    /\ payload.action = "update"
    /\ sync[1].pc = "done"
    /\ sync[1].outcome.success

SinkFailed(f) == posts.answer[f] \in {"non2xx", "networkError"}

\* C23: in both alert flows, a flow whose sink URL is not configured issues no
\* POST and is not rejected for it; a POST answered with a non-2xx status or a
\* network error is not repeated, the flow returns, and processIssueWebhook
\* returns success = true.
C23_SinkFailure ==
    \A f \in {"fireman", "cycle"} :
        /\ ~config[f] => posts[f] = 0 /\ flow[f] # "awaiting"
        /\ flow[f] = "rejected" => payload.data.state.name = NonString
        /\ SinkFailed(f) =>
              /\ posts[f] = 1
              /\ flow[f] = "fulfilled"
              /\ handler.pc = "returned" => handler.success

\* the fireman POST met a network error, the cycle POST a non-2xx answer, and
\* the handler returned success
C23_Witness ==
    /\ handler.pc = "returned" /\ handler.success
    /\ posts.answer.fireman = "networkError"
    /\ posts.answer.cycle = "non2xx"

-----------------------------------------------------------------------------
(* Label heuristic, cycle enrichment and result consistency, checked under  *)
(* SpecDetect                                                               *)

OtherFieldChanged == \E f \in TrackedFields \ {"labels"} : Ch[f].changed
FlaggedPresent ==
    \E i \in 1..Len(payload.data.labels) : payload.data.labels[i].name = FlowSentinel

\* C24: on an update the labels entry has changed = true exactly when the
\* flagged sentinel label is among the current labels, or the label list is
\* not empty and no other tracked field changed; then hasChanges is true,
\* 'added' holds the sentinel label exactly in the first case, and 'removed'
\* and 'previous' are empty.
C24_LabelHeuristic ==
    UpdateDetected =>
        /\ Ch.labels.changed <=>
              \/ FlaggedPresent
              \/ Len(payload.data.labels) > 0 /\ ~OtherFieldChanged
        /\ Ch.labels.changed =>
              /\ detection.hasChanges
              /\ Ch.labels.added =
                    (IF FlaggedPresent THEN <<Label("", FlowSentinel, "")>> ELSE <<>>)
              /\ Ch.labels.removed = <<>>
              /\ Ch.labels.previous = <<>>

InCycle == payload.data.cycle.id # Undefined
Enriched ==
    /\ detection.cycleCalls = 1
    /\ ~detection.threw
    /\ detection.changes = detectChanges(payload, gw.state, "active").changes
    /\ detection.hasChanges = detectChanges(payload, gw.state, "active").hasChanges
    /\ gw.cycle \in {"active", "completed"} =>
          /\ detection.cycleDetails.id = payload.data.cycle.id
          /\ (detection.cycleDetails.completedAt # Undefined) = (gw.cycle = "completed")
    /\ gw.cycle \in {"throw", "null"} => detection.cycleDetails = NoCycleDetails

\* C25 as stated: for every create or update payload whose snapshot references
\* a cycle, getCycleDetails is called exactly once and its result attached,
\* whether or not the cycle changed; when the call throws the same field diffs
\* are returned without cycle details.
C25_EnrichAnyUpdate ==
    Detected /\ payload.action \in {"create", "update"} /\ InCycle => Enriched

\* C25 amended: the same, for every create payload and every update payload
\* that carries an updatedFrom object.
C25_EnrichWithDelta ==
    Detected /\ InCycle
      /\ (payload.action = "create" \/ (payload.action = "update" /\ payload.updatedFrom.present))
    => Enriched

\* an update that changed the priority and not the cycle; the cycle-detail fetch
\* threw and the priority change is still reported
C25_Witness ==
    /\ UpdateDetected /\ InCycle
    /\ gw.cycle = "throw"
    /\ Ch.priority.changed /\ ~Ch.cycle.changed
    /\ detection.cycleCalls = 1
    /\ detection.cycleDetails = NoCycleDetails

-----------------------------------------------------------------------------
(* Update without updatedFrom, checked under SpecIssue *)

BareUpdate == payload.action = "update" /\ ~payload.updatedFrom.present

\* C30: for an update payload without an updatedFrom object detectChanges
\* returns hasChanges = false and no entry, calls neither getIssueState nor
\* getCycleDetails and applies no label heuristic, even when the issue carries
\* labels or the flagged label; processIssueWebhook then starts no flow and
\* sends nothing.
C30_BareUpdate ==
    BareUpdate =>
        /\ Detected =>
              /\ ~detection.hasChanges
              /\ \A f \in TrackedFields : ~Ch[f].present /\ ~Ch[f].changed
              /\ detection.stateCalls = 0 /\ detection.cycleCalls = 0
              /\ detection.cycleDetails = NoCycleDetails
        /\ \A f \in FlowNames : flow[f] = "notStarted"
        /\ posts.fireman = 0 /\ posts.cycle = 0
        /\ sync[1] = IdleSync
        /\ handler.pc = "returned" => handler.success

\* an update without updatedFrom of an issue in a cycle that carries the
\* flagged label was answered
C30_Witness ==
    /\ BareUpdate
    /\ handler.pc = "returned"
    /\ payload.data.cycle.id # Undefined
    /\ \E i \in 1..Len(payload.data.labels) :
          payload.data.labels[i].name = FlowSentinel

-----------------------------------------------------------------------------
(* Repeated alerts, checked under SpecAlerts *)

\* the event found the issue in 'Fireman Validation' with priority 1 and
\* changed its status, priority or title
Qualifies(p, d) ==
    /\ p.data.state.name = "Fireman Validation"
    /\ p.data.priority = 1
    /\ d.changes.status.changed \/ d.changes.priority.changed \/ d.changes.title.changed

\* C26: the urgent-status flow posts one alert for every event that finds the
\* issue in 'Fireman Validation' with priority 1 and changes status, priority
\* or title, however many alerts earlier events of the same issue posted; so
\* repeated saves give repeated alerts.
C26_NoSuppression ==
    config.fireman =>
        /\ \A k \in 1..Len(events) :
              events[k].fireman - (IF k = 1 THEN 0 ELSE events[k-1].fireman)
                 = (IF Qualifies(events[k].payload, events[k].detection) THEN 1 ELSE 0)
        /\ handler.pc \in {"joining", "returned"} =>
              posts.fireman - (IF events = <<>> THEN 0 ELSE events[Len(events)].fireman)
                 = (IF Qualifies(payload, detection) THEN 1 ELSE 0)

\* two saves in a row changed only the title of an issue that stayed in
\* 'Fireman Validation' with priority 1, and two alerts were posted
C26_Witness ==
    /\ Len(events) = 1
    /\ handler.pc = "returned"
    /\ Qualifies(events[1].payload, events[1].detection)
    /\ Qualifies(payload, detection)
    /\ ~detection.changes.status.changed /\ ~detection.changes.priority.changed
    /\ ~events[1].detection.changes.status.changed
    /\ posts.fireman = 2

-----------------------------------------------------------------------------
(* Concurrent release syncs, checked under SpecRace and SpecRelease *)

DocsTitled(label) == {i \in 1..Len(store) : store[i].title = label}

\* C27: whatever the interleaving of two release syncs of the same label, the
\* document store never holds two documents titled with that label.
C27_OneDocPerLabel ==
    \A label \in LabelNames : Cardinality(DocsTitled(label)) <= 1

\* C28: whenever a release sync writes a document with updateDocument, the
\* release_status of that document is 'not_released' at the moment of the
\* write, also when a person changed it after the sync looked the document up.
C28_LockAtWrite ==
    [][\A p \in Slots :
          sync[p].pc = "updating" /\ sync'[p].pc = "done"
             /\ sync'[p].outcome.action = "updated"
          => parseDocumentMetadata(DocById(sync[p].existing.id).body).release_status
                \in {"not_released", Undefined}]_vars

====
